---- MODULE Spec2Model ----
(***************************************************************************)
(* TriplesFactory of pykeen/triples/triples_factory.py as a state machine: *)
(* split and the coverage repair, _tf_cleanup_all (Spec), the construction *)
(* from_labeled_triples (SpecFactory), and the calls that derive factories *)
(* from a factory (SpecDerived).                                           *)
(*                                                                         *)
(* A triple is <<head_id, relation_id, tail_id>>; an array of triples is a *)
(* sequence of triples (row i of the numpy array is element i+1).          *)
(* A ratio is a number of hundredths: 0.34 is 34, and 1.0 is RatioDen.     *)
(* A numpy RandomState is a pair (seed, pos): the generator seeded with    *)
(* `seed` after `pos` draws.  tape[seed] holds the draws of that generator *)
(* that some call has already consumed: the generator is a function of its *)
(* seed, so a draw at a position already on the tape repeats it, and a     *)
(* draw at a new position may be any value within its range.               *)
(***************************************************************************)
EXTENDS Integers, Sequences, FiniteSets, TLC

\* Bounds of the model.
NumEntities == 2
NumRelations == 2
MaxTriples == 3
NumSeeds == 2
MaxLabeledTriples == 2
MaxSuffixes == 1

\* Fixed-point denominator of a ratio: the float 1.0 of split().
RatioDen == 100

VARIABLES
    mapped_triples,     \* self.mapped_triples of the factory that is split
    ratios_arg,         \* the `ratios` argument: [is_float, vals]
    pc,                 \* position of the call of split()
    random_state,       \* the RandomState split() shuffles and chooses with
    randomize_cleanup,  \* the `randomize_cleanup` argument
    tape,               \* draws already fixed for each seed
    idx,                \* the shuffled index (0-based row numbers)
    ratios,             \* local `ratios` after normalisation
    sizes,              \* local `sizes`
    split_groups,       \* triples_groups as np.vsplit returns them (line 575)
    triples_groups,     \* triples_groups as _tf_cleanup_all returns them (line 583)
    reference,          \* _tf_cleanup_all: the growing first group
    rv,                 \* _tf_cleanup_all: the repaired other groups
    testing,            \* _tf_cleanup_randomized: local `testing`
    move_id_mask,       \* _tf_cleanup_randomized: local `move_id_mask`
    error,              \* the exception split() raised, or "none"
    prev,               \* what the previous call of split() on this factory did
    labeled_triples,    \* the `triples` argument of from_labeled_triples: label rows
    arguments,          \* its other arguments
    factories,          \* the TriplesFactory objects made so far, in order of creation
    self,               \* the factory split() runs on (position in factories), or 0
    result              \* what the last call on a factory returned or raised

vars == <<mapped_triples, ratios_arg, pc, random_state, randomize_cleanup, tape,
          idx, ratios, sizes, split_groups, triples_groups, reference, rv,
          testing, move_id_mask, error, prev, labeled_triples, arguments,
          factories, self, result>>

\* The variables of a call of split().
svars == <<mapped_triples, ratios_arg, pc, random_state, randomize_cleanup, tape,
           idx, ratios, sizes, split_groups, triples_groups, reference, rv,
           testing, move_id_mask, error, prev>>

\* The variables of the label-level calls.
fvars == <<labeled_triples, arguments, factories, self, result>>

(***************************************************************************)
(* Arrays.                                                                 *)
(***************************************************************************)
Triples == (0 .. NumEntities - 1) \X (0 .. NumRelations - 1) \X (0 .. NumEntities - 1)

\* Row order of np.unique(axis=0): lexicographic.
TripleLess(a, b) ==
    \/ a[1] < b[1]
    \/ a[1] = b[1] /\ a[2] < b[2]
    \/ a[1] = b[1] /\ a[2] = b[2] /\ a[3] < b[3]

\* mapped_triples as _map_triples_elements_to_ids leaves them: unique, sorted rows.
IsUniqueSorted(s) == \A i \in 1 .. Len(s) - 1 : TripleLess(s[i], s[i + 1])

\* Scenario A of the specification: (a,r,b), (b,r,c), (c,r,a) with a=0, b=1, c=2, r=0.
ScenarioATriples == << <<0, 0, 1>>, <<1, 0, 2>>, <<2, 0, 0>> >>

ScenarioARatios == [is_float |-> FALSE, vals |-> <<34, 33, 33>>]

Stores ==
    {s \in UNION {[1 .. n -> Triples] : n \in 0 .. MaxTriples} : IsUniqueSorted(s)}
        \cup {ScenarioATriples}

\* The ratio arguments the model calls split() with: a float, and lists that sum
\* to less than, exactly, and more than 1.0.
RatioArgs ==
    {[is_float |-> TRUE, vals |-> <<50>>]}
        \cup {[is_float |-> FALSE, vals |-> v] :
                v \in {<<>>, <<50>>, <<50, 50>>, <<34, 34>>, <<34, 33>>,
                       <<34, 33, 33>>, <<60, 50>>}}

Seeds == 1 .. NumSeeds

RECURSIVE SumSeq(_)
SumSeq(s) == IF s = <<>> THEN 0 ELSE s[1] + SumSeq(Tail(s))

Lens(ss) == [i \in 1 .. Len(ss) |-> Len(ss[i])]

RowSet(g) == {g[i] : i \in 1 .. Len(g)}

\* np.unique(triples[:, [0, 2]]) and np.unique(triples[:, 1]), as sets.
EntityIds(g) == {g[i][1] : i \in 1 .. Len(g)} \cup {g[i][3] : i \in 1 .. Len(g)}

RelationIds(g) == {g[i][2] : i \in 1 .. Len(g)}

\* a[mask] for a boolean mask.
RECURSIVE MaskSelect(_, _)
MaskSelect(a, mask) ==
    IF a = <<>> THEN <<>>
    ELSE (IF mask[1] THEN <<a[1]>> ELSE <<>>) \o MaskSelect(Tail(a), Tail(mask))

MaskNot(mask) == [i \in 1 .. Len(mask) |-> ~mask[i]]

MaskAny(mask) == \E i \in 1 .. Len(mask) : mask[i]

\* mask.nonzero()[0]: the positions (1-based here) of the true bits, ascending.
RECURSIVE NonZeroFrom(_, _)
NonZeroFrom(mask, i) ==
    IF i > Len(mask) THEN <<>>
    ELSE (IF mask[i] THEN <<i>> ELSE <<>>) \o NonZeroFrom(mask, i + 1)

\* Mutant of NonZero: the last row of `testing` is the only candidate, whether its
\* mask bit is set or not.
NonZero_last_row(mask) == <<Len(mask)>>

\* Mutant of NonZero: every row of `testing` is a candidate, not the must-move ones.
NonZero_all_rows(mask) == [i \in 1 .. Len(mask) |-> i]

NonZero(mask) == NonZeroFrom(mask, 1)

(***************************************************************************)
(* The random generator.                                                   *)
(***************************************************************************)
\* ensure_random_state(seed): a fresh RandomState seeded with `seed`.
ensure_random_state(seed) == [seed |-> seed, pos |-> 0]

\* The tapes on which the generator `rs` can make its next Len(bounds) draws, the
\* m-th of them below bounds[m]: draws already on the tape stay, the others are free.
TapeFill(t, rs, bounds) ==
    LET have == Len(t) - rs.pos
        new == IF Len(bounds) > have THEN Len(bounds) - have ELSE 0
    IN  {t \o e : e \in {f \in [1 .. new -> 0 .. MaxTriples] :
                           \A k \in 1 .. new : f[k] < bounds[have + k]}}

\* The m-th next draw of `rs` on tape t, as a value below `bound`.
DrawAt(t, rs, m, bound) == t[rs.pos + m] % bound

Advance(rs, n) == [rs EXCEPT !.pos = @ + n]

Swap(x, i, j) == [x EXCEPT ![i] = x[j], ![j] = x[i]]

\* RandomState.shuffle(x): Fisher-Yates from the last element down, the element at
\* i exchanged with the one at a drawn j <= i; js[m] is the m-th draw (0-based j).
RECURSIVE FisherYates(_, _, _, _)
FisherYates(x, i, js, m) ==
    IF i < 2 THEN x
    ELSE FisherYates(Swap(x, i, js[m] + 1), i - 1, js, m + 1)

\* np.arange(n)
arange(n) == [i \in 1 .. n |-> i - 1]

(***************************************************************************)
(* split(), lines 556-575: ratios, sizes, groups.                          *)
(***************************************************************************)
\* Mutant of NormalizedRatios: a list that sums to 1.0 keeps its last element.
NormalizedRatios_keeps_last(arg) == arg.vals

\* Lines 557-562: the ratios the sizes are computed from.
NormalizedRatios(arg) ==
    IF SumSeq(arg.vals) = RatioDen
    THEN SubSeq(arg.vals, 1, Len(arg.vals) - 1)
    ELSE arg.vals

\* Mutant of SplitSize: round(split_ratio * n_triples) instead of int().
SplitSize_rounded(split_ratio, n_triples) ==
    (split_ratio * n_triples + RatioDen \div 2) \div RatioDen

\* Line 567: int(split_ratio * n_triples).
SplitSize(split_ratio, n_triples) == (split_ratio * n_triples) \div RatioDen

ComputeSizes(rs, n_triples) == [i \in 1 .. Len(rs) |-> SplitSize(rs[i], n_triples)]

\* np.cumsum
CumSum(s) == [i \in 1 .. Len(s) |-> SumSeq(SubSeq(s, 1, i))]

\* Mutant of Permuted: every position reads the row of the first index.
Permuted_repeats_first(triples, ix) == [i \in 1 .. Len(ix) |-> triples[ix[1] + 1]]

\* triples_np[idx]
Permuted(triples, ix) == [i \in 1 .. Len(ix) |-> triples[ix[i] + 1]]

\* np.vsplit(a, split_idxs): the blocks between consecutive split indices.
vsplit(a, split_idxs) ==
    LET cut(g) == IF g = 0 THEN 0
                  ELSE IF g > Len(split_idxs) THEN Len(a)
                  ELSE split_idxs[g]
    IN  [g \in 1 .. Len(split_idxs) + 1 |-> SubSeq(a, cut(g - 1) + 1, cut(g))]

(***************************************************************************)
(* Coverage repair.                                                        *)
(***************************************************************************)
\* Mutant of prepare_cleanup: only the entity columns are compared.
prepare_cleanup_entities_only(training, test) ==
    LET to_move_e == EntityIds(test) \ EntityIds(training)
    IN  [i \in 1 .. Len(test) |-> test[i][1] \in to_move_e \/ test[i][3] \in to_move_e]

\* Mutant of prepare_cleanup: only the relation column is compared.
prepare_cleanup_relations_only(training, test) ==
    LET to_move_r == RelationIds(test) \ RelationIds(training)
    IN  [i \in 1 .. Len(test) |-> test[i][2] \in to_move_r]

\* _prepare_cleanup: the rows of `test` that carry an entity or relation id that
\* `training` lacks.
prepare_cleanup(training, test) ==
    LET to_move_e == EntityIds(test) \ EntityIds(training)
        to_move_r == RelationIds(test) \ RelationIds(training)
    IN  [i \in 1 .. Len(test) |->
            \/ test[i][1] \in to_move_e
            \/ test[i][3] \in to_move_e
            \/ test[i][2] \in to_move_r]

\* Mutant of tf_cleanup_deterministic: the moved rows also stay in `testing`.
tf_cleanup_deterministic_keeps_moved(training, test) ==
    [training |-> training \o MaskSelect(test, prepare_cleanup(training, test)),
     testing |-> test]

\* Mutant of tf_cleanup_deterministic: the moved rows are put before training.
tf_cleanup_deterministic_prepends(training, test) ==
    LET mask == prepare_cleanup(training, test)
    IN  [training |-> MaskSelect(test, mask) \o training,
         testing |-> MaskSelect(test, MaskNot(mask))]

\* _tf_cleanup_deterministic: (training, testing) after the batch move.
tf_cleanup_deterministic(training, test) ==
    LET mask == prepare_cleanup(training, test)
    IN  [training |-> training \o MaskSelect(test, mask),
         testing |-> MaskSelect(test, MaskNot(mask))]

\* Mutant of RemoveAt: the row stays in `test`.
RemoveAt_keeps_row(test, i) == test

\* Lines 896-901: the row at position i (1-based) leaves `test`.
RemoveAt(test, i) == SubSeq(test, 1, i - 1) \o SubSeq(test, i + 1, Len(test))

\* _tf_cleanup_all: the groups after `reference`.
Others == Tail(split_groups)

NoPrev == [called |-> FALSE, seed |-> 0, randomize |-> FALSE, outcome |-> "none",
           error |-> "none", groups |-> <<>>]

(***************************************************************************)
(* Labels and mappings.                                                    *)
(*                                                                         *)
(* An entity label is a string.  A relation label is <<base, k>>: the      *)
(* string `base` followed by k copies of INVERSE_SUFFIX, where `base` does *)
(* not itself end with the suffix.  A mapping (a Python dict) is a         *)
(* function; an Optional mapping is [given, mapping].                      *)
(***************************************************************************)
\* Entity labels and relation bases, in the order Python's sorted() gives strings.
EntityLabelOrder == <<"a", "b", "c", "d">>

RelationBaseOrder == <<"r", "s", "t", "u">>

EntityLabels == {EntityLabelOrder[i] : i \in 1 .. NumEntities}

RelationLabels ==
    {<<RelationBaseOrder[i], k>> : i \in 1 .. NumRelations, k \in 0 .. MaxSuffixes}

LabeledRows == EntityLabels \X RelationLabels \X EntityLabels

EntityRank(label) ==
    CHOOSE i \in 1 .. Len(EntityLabelOrder) : EntityLabelOrder[i] = label

RelationBaseRank(base) ==
    CHOOSE i \in 1 .. Len(RelationBaseOrder) : RelationBaseOrder[i] = base

\* str < str on entity labels.
EntityLabelLess(x, y) == EntityRank(x) < EntityRank(y)

\* str < str on relation labels: a label is a proper prefix of the label with one
\* more suffix.
RelationLabelLess(x, y) ==
    \/ RelationBaseRank(x[1]) < RelationBaseRank(y[1])
    \/ x[1] = y[1] /\ x[2] < y[2]

\* f"{relation}{INVERSE_SUFFIX}".
WithInverseSuffix(relation) == <<relation[1], relation[2] + 1>>

\* relation.endswith(INVERSE_SUFFIX).
EndsWithInverseSuffix(relation) == relation[2] > 0

\* re.sub('_inverse$', '', relation): one trailing suffix is removed, if any.
StripInverseSuffix(relation) ==
    IF relation[2] > 0 THEN <<relation[1], relation[2] - 1>> ELSE relation

Values(mapping) == {mapping[k] : k \in DOMAIN mapping}

\* The empty dict.
EmptyMapping == [k \in {} |-> 0]

NoMapping == [given |-> FALSE, mapping |-> EmptyMapping]

Given(mapping) == [given |-> TRUE, mapping |-> mapping]

\* dict.get(key, default).
Get(mapping, key, default) == IF key \in DOMAIN mapping THEN mapping[key] ELSE default

Column(triples, c) == {triples[i][c] : i \in 1 .. Len(triples)}

\* Mutant of create_entity_mapping: the numbering starts at 1.
create_entity_mapping_from_one(triples) ==
    LET entity_labels == Column(triples, 1) \cup Column(triples, 3)
    IN  [label \in entity_labels |->
            1 + Cardinality({x \in entity_labels : EntityLabelLess(x, label)})]

\* create_entity_mapping: the labels of the head and tail columns, numbered in
\* sorted order.
create_entity_mapping(triples) ==
    LET entity_labels == Column(triples, 1) \cup Column(triples, 3)
    IN  [label \in entity_labels |->
            Cardinality({x \in entity_labels : EntityLabelLess(x, label)})]

\* The sort key of create_relation_mapping, line 120, compared as Python compares
\* tuples.
RelationKeyLess(x, y) ==
    \/ RelationLabelLess(StripInverseSuffix(x), StripInverseSuffix(y))
    \/ /\ StripInverseSuffix(x) = StripInverseSuffix(y)
       /\ ~EndsWithInverseSuffix(x)
       /\ EndsWithInverseSuffix(y)

\* create_relation_mapping: the relation labels, numbered in the order of the key.
create_relation_mapping(relations) ==
    [label \in relations |-> Cardinality({x \in relations : RelationKeyLess(x, label)})]

\* pykeen.utils.compact_mapping(mapping)[0]: the ids renumbered 0, 1, ... in the
\* order of the old ids.
compact_mapping(mapping) ==
    [k \in DOMAIN mapping |-> Cardinality({v \in Values(mapping) : v < mapping[k]})]

\* pykeen.utils.invert_mapping: id to label.
invert_mapping(mapping) ==
    [v \in Values(mapping) |-> CHOOSE k \in DOMAIN mapping : mapping[k] = v]

\* Mutant of unique: the distinct rows in the order of their first occurrence.
unique_first_seen(ar) ==
    MaskSelect(ar, [i \in 1 .. Len(ar) |-> \A j \in 1 .. i - 1 : ar[j] # ar[i]])

\* np.unique(ar, axis=0): the distinct rows in lexicographic order.
unique(ar) ==
    LET rows == RowSet(ar)
    IN  [i \in 1 .. Cardinality(rows) |->
            CHOOSE x \in rows : Cardinality({y \in rows : TripleLess(y, x)}) = i - 1]

\* Mutant of map_triples_elements_to_ids: a row with an unmapped tail is kept.
map_triples_elements_to_ids_keeps_tails(triples, entity_to_id, relation_to_id) ==
    IF Len(triples) = 0 THEN <<>>
    ELSE LET triples_of_ids ==
                 [i \in 1 .. Len(triples) |->
                     <<Get(entity_to_id, triples[i][1], -1),
                       Get(relation_to_id, triples[i][2], -1),
                       Get(entity_to_id, triples[i][3], -1)>>]
         IN  unique(MaskSelect(triples_of_ids,
                               [i \in 1 .. Len(triples) |->
                                   triples_of_ids[i][1] >= 0 /\ triples_of_ids[i][2] >= 0]))

\* _map_triples_elements_to_ids: an unmapped label becomes -1, the rows with a -1
\* are dropped, and the rest are made unique.
map_triples_elements_to_ids(triples, entity_to_id, relation_to_id) ==
    IF Len(triples) = 0 THEN <<>>
    ELSE LET head_column == [i \in 1 .. Len(triples) |-> Get(entity_to_id, triples[i][1], -1)]
             relation_column ==
                 [i \in 1 .. Len(triples) |-> Get(relation_to_id, triples[i][2], -1)]
             tail_column == [i \in 1 .. Len(triples) |-> Get(entity_to_id, triples[i][3], -1)]
             non_mappable_triples ==
                 [i \in 1 .. Len(triples) |->
                     head_column[i] < 0 \/ relation_column[i] < 0 \/ tail_column[i] < 0]
             triples_of_ids ==
                 [i \in 1 .. Len(triples) |->
                     <<head_column[i], relation_column[i], tail_column[i]>>]
         IN  unique(MaskSelect(triples_of_ids, MaskNot(non_mappable_triples)))

\* _check_already_inverted_relations.
check_already_inverted_relations(relations) ==
    \E relation \in relations : EndsWithInverseSuffix(relation)

\* from_labeled_triples, lines 284-314: relation_to_inverse, as [present, mapping].
RelationToInverse(unique_relations, create_inverse_triples) ==
    IF check_already_inverted_relations(unique_relations)
    THEN [present |-> TRUE,
          mapping |-> [relation \in {StripInverseSuffix(x) : x \in unique_relations} |->
                          WithInverseSuffix(relation)]]
    ELSE IF create_inverse_triples
    THEN [present |-> TRUE,
          mapping |-> [relation \in unique_relations |-> WithInverseSuffix(relation)]]
    ELSE [present |-> FALSE, mapping |-> EmptyMapping]

\* Mutant of ExtendedTriples: the inverse triples keep head and tail in place.
ExtendedTriples_not_swapped(triples, create_inverse_triples) ==
    IF create_inverse_triples /\ ~check_already_inverted_relations(Column(triples, 2))
    THEN triples \o [i \in 1 .. Len(triples) |->
                        <<triples[i][1], WithInverseSuffix(triples[i][2]), triples[i][3]>>]
    ELSE triples

\* from_labeled_triples, lines 301-310: the triples followed by their inverses,
\* unless some relation already carries the suffix.
ExtendedTriples(triples, create_inverse_triples) ==
    IF create_inverse_triples /\ ~check_already_inverted_relations(Column(triples, 2))
    THEN triples \o [i \in 1 .. Len(triples) |->
                        <<triples[i][3], WithInverseSuffix(triples[i][2]), triples[i][1]>>]
    ELSE triples

\* from_labeled_triples: the new factory.
from_labeled_triples(triples, create_inverse_triples, entity_to_id, relation_to_id, compact_id) ==
    LET unique_relations == Column(triples, 2)
        relation_to_inverse == RelationToInverse(unique_relations, create_inverse_triples)
        extended == ExtendedTriples(triples, create_inverse_triples)
        e1 == IF entity_to_id.given THEN entity_to_id.mapping
              ELSE create_entity_mapping(extended)
        e2 == IF compact_id THEN compact_mapping(e1) ELSE e1
        r1 == IF relation_to_id.given THEN relation_to_id.mapping
              ELSE IF relation_to_inverse.present
              THEN create_relation_mapping(DOMAIN relation_to_inverse.mapping
                                           \cup Values(relation_to_inverse.mapping))
              ELSE create_relation_mapping(unique_relations)
        r2 == IF compact_id THEN compact_mapping(r1) ELSE r1
    IN  [entity_to_id |-> e2,
         relation_to_id |-> r2,
         mapped_triples |-> map_triples_elements_to_ids(extended, e2, r2),
         relation_to_inverse |-> relation_to_inverse]

\* What a call returns, or the exception it raises.
Returns(value) == [error |-> "none", value |-> value]

Raises(exception) == [error |-> exception, value |-> <<>>]

num_entities(f) == Cardinality(DOMAIN f.entity_to_id)

num_relations(f) == Cardinality(DOMAIN f.relation_to_id)

\* get_inverse_relation_id.
get_inverse_relation_id(f, relation) ==
    IF ~f.relation_to_inverse.present THEN Raises("ValueError")
    ELSE IF relation \notin DOMAIN f.relation_to_inverse.mapping THEN Raises("KeyError")
    ELSE IF f.relation_to_inverse.mapping[relation] \notin DOMAIN f.relation_to_id
    THEN Raises("KeyError")
    ELSE Returns(f.relation_to_id[f.relation_to_inverse.mapping[relation]])

UnknownEntityLabel == "[UNKNOWN]"

UnknownRelationLabel == <<"[UNKNOWN]", 0>>

\* Mutant of label_triples: the head and tail columns change places.
label_triples_swapped(f, triples) ==
    IF Len(triples) = 0 THEN Raises("ValueError")
    ELSE Returns([i \in 1 .. Len(triples) |->
            <<Get(invert_mapping(f.entity_to_id), triples[i][3], UnknownEntityLabel),
              Get(invert_mapping(f.relation_to_id), triples[i][2], UnknownRelationLabel),
              Get(invert_mapping(f.entity_to_id), triples[i][1], UnknownEntityLabel)>>])

\* label_triples: np.vectorize refuses an input of size 0; otherwise every id is
\* replaced by its label, or by the unknown label.
label_triples(f, triples) ==
    IF Len(triples) = 0 THEN Raises("ValueError")
    ELSE Returns([i \in 1 .. Len(triples) |->
            <<Get(invert_mapping(f.entity_to_id), triples[i][1], UnknownEntityLabel),
              Get(invert_mapping(f.relation_to_id), triples[i][2], UnknownRelationLabel),
              Get(invert_mapping(f.entity_to_id), triples[i][3], UnknownEntityLabel)>>])

\* A collection of entities or relations passed to a mask or a restriction: its
\* labels (str) and its ids (int); `given` is FALSE for None.
NoSelection == [given |-> FALSE, labels |-> {}, ids |-> {}]

Selection(labels, ids) == [given |-> TRUE, labels |-> labels, ids |-> ids]

\* entities_to_ids and relations_to_ids: a label is looked up, an id is kept.
to_ids(mapping, selection) ==
    IF \E label \in selection.labels : label \notin DOMAIN mapping
    THEN Raises("KeyError")
    ELSE Returns({mapping[label] : label \in selection.labels} \cup selection.ids)

\* _get_triple_mask with max_id given: id_selection_mask has max_id entries and is
\* indexed by the query ids and by the ids in the columns.
get_triple_mask(query_ids, triples, columns, invert, max_id) ==
    IF \E q \in query_ids : q \notin 0 .. max_id - 1 THEN Raises("IndexError")
    ELSE IF \E i \in 1 .. Len(triples), c \in columns : triples[i][c] \notin 0 .. max_id - 1
    THEN Raises("IndexError")
    ELSE Returns([i \in 1 .. Len(triples) |->
                    \A c \in columns : (triples[i][c] \in query_ids) # invert])

\* get_mask_for_entities: head and tail must both be selected.
get_mask_for_entities(f, entities, invert) ==
    LET ids == to_ids(f.entity_to_id, entities)
    IN  IF ids.error # "none" THEN ids
        ELSE get_triple_mask(ids.value, f.mapped_triples, {1, 3}, invert, num_entities(f))

\* get_mask_for_relations.
get_mask_for_relations(f, relations, invert) ==
    LET ids == to_ids(f.relation_to_id, relations)
    IN  IF ids.error # "none" THEN ids
        ELSE get_triple_mask(ids.value, f.mapped_triples, {2}, invert, num_relations(f))

\* Mutant of WithTriples: the new factory is made without the inverse map.
WithTriples_without_inverse(f, triples) ==
    [f EXCEPT !.mapped_triples = triples,
              !.relation_to_inverse = [present |-> FALSE, mapping |-> EmptyMapping]]

\* TriplesFactory(mapped_triples=triples, entity_to_id=f.entity_to_id,
\* relation_to_id=f.relation_to_id, relation_to_inverse=f.relation_to_inverse).
WithTriples(f, triples) == [f EXCEPT !.mapped_triples = triples]

\* The new factory with the rows of f that a mask selects.
Masked(f, mask) == WithTriples(f, MaskSelect(f.mapped_triples, mask))

\* What a call on a factory returns: the factory itself, or a new one.
ReturnsSelf(f) == Returns([is_self |-> TRUE, factory |-> f])

ReturnsNew(f) == Returns([is_self |-> FALSE, factory |-> f])

\* new_with_relations.
new_with_relations(f, relations) ==
    LET mask == get_mask_for_relations(f, relations, FALSE)
    IN  IF mask.error # "none" THEN mask ELSE ReturnsNew(Masked(f, mask.value))

\* new_without_relations.
new_without_relations(f, relations) ==
    LET mask == get_mask_for_relations(f, relations, TRUE)
    IN  IF mask.error # "none" THEN mask ELSE ReturnsNew(Masked(f, mask.value))

\* new_with_restriction, lines 816-822: with an inverse map, every requested relation
\* is looked up in relation_to_inverse, whose keys are labels, and its inverse is
\* added to the request.
ExpandedRelations(f, relations) ==
    IF ~(f.relation_to_inverse.present /\ relations.given) THEN Returns(relations)
    ELSE IF \/ relations.ids # {}
            \/ \E label \in relations.labels : label \notin DOMAIN f.relation_to_inverse.mapping
    THEN Raises("KeyError")
    ELSE Returns(Selection(relations.labels \cup
                           {f.relation_to_inverse.mapping[label] : label \in relations.labels},
                           {}))

\* new_with_restriction.
new_with_restriction(f, entities, relations) ==
    LET expanded == ExpandedRelations(f, relations)
        entity_mask == get_mask_for_entities(f, entities, FALSE)
        relation_mask == get_mask_for_relations(f, expanded.value, FALSE)
    IN  IF expanded.error # "none" THEN expanded
        ELSE IF entities.given /\ entity_mask.error # "none" THEN entity_mask
        ELSE IF expanded.value.given /\ relation_mask.error # "none" THEN relation_mask
        ELSE IF ~entities.given /\ ~expanded.value.given THEN ReturnsSelf(f)
        ELSE ReturnsNew(Masked(f,
                [i \in 1 .. Len(f.mapped_triples) |->
                    /\ entities.given => entity_mask.value[i]
                    /\ expanded.value.given => relation_mask.value[i]]))

NoArguments == [create_inverse_triples |-> FALSE, entity_to_id |-> NoMapping,
                relation_to_id |-> NoMapping, compact_id |-> TRUE]

NoResult == [op |-> "none", on |-> 0, triples |-> <<>>, entities |-> NoSelection,
             relations |-> NoSelection, error |-> "none", value |-> <<>>]

(***************************************************************************)
(* The state machine.                                                      *)
(***************************************************************************)
Init ==
    /\ mapped_triples \in Stores
    /\ ratios_arg \in RatioArgs
    /\ pc = "idle"
    /\ random_state = ensure_random_state(1)
    /\ randomize_cleanup = FALSE
    /\ tape = [s \in Seeds |-> <<>>]
    /\ idx = <<>>
    /\ ratios = <<>>
    /\ sizes = <<>>
    /\ split_groups = <<>>
    /\ triples_groups = <<>>
    /\ reference = <<>>
    /\ rv = <<>>
    /\ testing = <<>>
    /\ move_id_mask = <<>>
    /\ error = "none"
    /\ prev = NoPrev
    /\ labeled_triples = <<>>
    /\ arguments = NoArguments
    /\ factories = <<>>
    /\ self = 0
    /\ result = NoResult

\* Lines 548-553: split() is called with a seed and a cleanup mode.
Call ==
    /\ UNCHANGED fvars
    /\ pc = "idle"
    /\ \E seed \in Seeds, rc \in BOOLEAN :
        /\ random_state' = ensure_random_state(seed)
        /\ randomize_cleanup' = rc
    /\ pc' = "shuffle"
    /\ UNCHANGED <<mapped_triples, ratios_arg, tape, idx, ratios, sizes, split_groups,
                   triples_groups, reference, rv, testing, move_id_mask, error, prev>>

\* Line 554: random_state.shuffle(idx).
Shuffle ==
    /\ UNCHANGED fvars
    /\ pc = "shuffle"
    /\ LET n == Len(mapped_triples)
           bounds == [m \in 1 .. (IF n > 1 THEN n - 1 ELSE 0) |-> n - m + 1]
       IN  \E t \in TapeFill(tape[random_state.seed], random_state, bounds) :
              /\ tape' = [tape EXCEPT ![random_state.seed] = t]
              /\ idx' = FisherYates(arange(n), n,
                                    [m \in 1 .. Len(bounds) |->
                                        DrawAt(t, random_state, m, bounds[m])], 1)
              /\ random_state' = Advance(random_state, Len(bounds))
    /\ pc' = "normalize"
    /\ UNCHANGED <<mapped_triples, ratios_arg, randomize_cleanup, ratios, sizes,
                   split_groups, triples_groups, reference, rv, testing, move_id_mask,
                   error, prev>>

\* Lines 557-564: a float becomes a one-element list, a list that sums to 1.0 loses
\* its last element, a list that sums to more than 1.0 raises ValueError.
Normalize ==
    /\ UNCHANGED fvars
    /\ pc = "normalize"
    /\ IF SumSeq(ratios_arg.vals) > RatioDen
       THEN /\ pc' = "raised"
            /\ error' = "ValueError"
            /\ ratios' = ratios_arg.vals
       ELSE /\ pc' = "slice"
            /\ error' = error
            /\ ratios' = NormalizedRatios(ratios_arg)
    /\ UNCHANGED <<mapped_triples, ratios_arg, random_state, randomize_cleanup, tape, idx,
                   sizes, split_groups, triples_groups, reference, rv, testing,
                   move_id_mask, prev>>

\* Lines 566-583 up to the call of _tf_cleanup_all, and its line 856.
Slice ==
    /\ UNCHANGED fvars
    /\ pc = "slice"
    /\ sizes' = ComputeSizes(ratios, Len(mapped_triples))
    /\ split_groups' = vsplit(Permuted(mapped_triples, idx), CumSum(sizes'))
    /\ reference' = split_groups'[1]
    /\ rv' = <<>>
    /\ pc' = "cleanup"
    /\ UNCHANGED <<mapped_triples, ratios_arg, random_state, randomize_cleanup, tape, idx,
                   ratios, triples_groups, testing, move_id_mask, error, prev>>

\* Mutant of cleanup_random_state: the randomized repair makes a generator anew
\* instead of using the one split() shuffled with.
cleanup_random_state_fresh(passed, fresh) == ensure_random_state(fresh)

\* Line 583: split() hands its own RandomState to the randomized repair, and line
\* 888 keeps a RandomState it is handed; `fresh` is the seed a generator made anew
\* would get.
cleanup_random_state(passed, fresh) == passed

\* _tf_cleanup_all, lines 858-863, deterministic branch: one batch move for the
\* next pair (reference, other).
CleanupDeterministic ==
    /\ UNCHANGED fvars
    /\ pc = "cleanup"
    /\ ~randomize_cleanup
    /\ Len(rv) < Len(Others)
    /\ LET r == tf_cleanup_deterministic(reference, Others[Len(rv) + 1])
       IN  /\ reference' = r.training
           /\ rv' = Append(rv, r.testing)
    /\ UNCHANGED <<mapped_triples, ratios_arg, pc, random_state, randomize_cleanup, tape,
                   idx, ratios, sizes, split_groups, triples_groups, testing,
                   move_id_mask, error, prev>>

\* _tf_cleanup_randomized, lines 888-890: the first must-move mask of the next pair.
CleanupRandomizedEnter ==
    /\ UNCHANGED fvars
    /\ pc = "cleanup"
    /\ randomize_cleanup
    /\ Len(rv) < Len(Others)
    /\ \E fresh \in Seeds : random_state' = cleanup_random_state(random_state, fresh)
    /\ testing' = Others[Len(rv) + 1]
    /\ move_id_mask' = prepare_cleanup(reference, testing')
    /\ pc' = "randomized"
    /\ UNCHANGED <<mapped_triples, ratios_arg, randomize_cleanup, tape, idx, ratios, sizes,
                   split_groups, triples_groups, reference, rv, error, prev>>

\* _tf_cleanup_randomized, lines 893-904: one iteration of the loop moves one row
\* chosen among the must-move rows and computes the mask again.
CleanupRandomizedMove ==
    /\ UNCHANGED fvars
    /\ pc = "randomized"
    /\ MaskAny(move_id_mask)
    /\ LET candidates == NonZero(move_id_mask)
       IN  \E t \in TapeFill(tape[random_state.seed], random_state, <<Len(candidates)>>) :
              LET i == candidates[DrawAt(t, random_state, 1, Len(candidates)) + 1]
              IN  /\ tape' = [tape EXCEPT ![random_state.seed] = t]
                  /\ reference' = Append(reference, testing[i])
                  /\ testing' = RemoveAt(testing, i)
                  /\ move_id_mask' = prepare_cleanup(reference', testing')
    /\ random_state' = Advance(random_state, 1)
    /\ UNCHANGED <<mapped_triples, ratios_arg, pc, randomize_cleanup, idx, ratios, sizes,
                   split_groups, triples_groups, rv, error, prev>>

\* _tf_cleanup_randomized, lines 893 and 906, and line 863: the mask is empty, the
\* pair is returned.
CleanupRandomizedExit ==
    /\ UNCHANGED fvars
    /\ pc = "randomized"
    /\ ~MaskAny(move_id_mask)
    /\ rv' = Append(rv, testing)
    /\ testing' = <<>>
    /\ move_id_mask' = <<>>
    /\ pc' = "cleanup"
    /\ UNCHANGED <<mapped_triples, ratios_arg, random_state, randomize_cleanup, tape, idx,
                   ratios, sizes, split_groups, triples_groups, reference, error, prev>>

\* _tf_cleanup_all, line 864, assigned at line 583.
CleanupReturn ==
    /\ UNCHANGED fvars
    /\ pc = "cleanup"
    /\ Len(rv) = Len(Others)
    /\ triples_groups' = <<reference>> \o rv
    /\ pc' = "report"
    /\ UNCHANGED <<mapped_triples, ratios_arg, random_state, randomize_cleanup, tape, idx,
                   ratios, sizes, split_groups, reference, rv, testing, move_id_mask,
                   error, prev>>

\* Line 588, actual_size / exp_size, for the groups the loop of line 586 visits:
\* zip() stops with the shortest of groups, sizes and ratios.
DividesByZero(exp_sizes) == \E i \in 1 .. Len(exp_sizes) : exp_sizes[i] = 0

\* Lines 586-604: the comparison of requested and actual sizes, then the return of
\* one factory per group.
LogSizes ==
    /\ UNCHANGED fvars
    /\ pc = "report"
    /\ IF DividesByZero(sizes)
       THEN /\ pc' = "raised"
            /\ error' = "ZeroDivisionError"
       ELSE /\ pc' = "returned"
            /\ error' = error
    /\ UNCHANGED <<mapped_triples, ratios_arg, random_state, randomize_cleanup, tape, idx,
                   ratios, sizes, split_groups, triples_groups, reference, rv, testing,
                   move_id_mask, prev>>

\* The caller keeps what the call did and calls split() on the same factory with
\* the same ratios again.
Rerun ==
    /\ UNCHANGED fvars
    /\ pc \in {"returned", "raised"}
    /\ ~prev.called
    /\ prev' = [called |-> TRUE, seed |-> random_state.seed,
                randomize |-> randomize_cleanup, outcome |-> pc, error |-> error,
                groups |-> triples_groups]
    /\ pc' = "idle"
    /\ random_state' = ensure_random_state(1)
    /\ randomize_cleanup' = FALSE
    /\ idx' = <<>>
    /\ ratios' = <<>>
    /\ sizes' = <<>>
    /\ split_groups' = <<>>
    /\ triples_groups' = <<>>
    /\ reference' = <<>>
    /\ rv' = <<>>
    /\ error' = "none"
    /\ UNCHANGED <<mapped_triples, ratios_arg, tape, testing, move_id_mask>>

Next ==
    \/ Call
    \/ Shuffle
    \/ Normalize
    \/ Slice
    \/ CleanupDeterministic
    \/ CleanupRandomizedEnter
    \/ CleanupRandomizedMove
    \/ CleanupRandomizedExit
    \/ CleanupReturn
    \/ LogSizes
    \/ Rerun

Spec == Init /\ [][Next]_vars

(***************************************************************************)
(* The label-level calls: from_labeled_triples and the calls on the        *)
(* factories it makes.  A factory is known by its position in `factories`. *)
(***************************************************************************)
LabeledInputs == UNION {[1 .. n -> LabeledRows] : n \in 0 .. MaxLabeledTriples}

\* A caller's entity mapping with gaps between the ids.
SparseEntityMapping == [label \in EntityLabels |-> 2 * EntityRank(label) - 1]

\* A caller's entity mapping that knows the first label only.
PartialEntityMapping == [label \in {EntityLabelOrder[1]} |-> 0]

\* A caller's relation mapping with gaps between the ids.
SparseRelationMapping ==
    [label \in RelationLabels |->
        2 * ((MaxSuffixes + 1) * RelationBaseRank(label[1]) + label[2])]

\* A caller's relation mapping that knows the labels without suffix only.
PartialRelationMapping ==
    [label \in {x \in RelationLabels : x[2] = 0} |-> RelationBaseRank(label[1]) - 1]

ArgumentSets ==
    [create_inverse_triples : BOOLEAN,
     entity_to_id : {NoMapping, Given(SparseEntityMapping), Given(PartialEntityMapping)},
     relation_to_id : {NoMapping, Given(SparseRelationMapping),
                       Given(PartialRelationMapping)},
     compact_id : BOOLEAN]

InitFactory ==
    /\ labeled_triples \in LabeledInputs
    /\ arguments \in ArgumentSets
    /\ factories = <<>>
    /\ self = 0
    /\ result = NoResult
    /\ pc = "unbuilt"
    /\ mapped_triples = <<>>
    /\ ratios_arg = [is_float |-> TRUE, vals |-> <<50>>]
    /\ random_state = ensure_random_state(1)
    /\ randomize_cleanup = FALSE
    /\ tape = [s \in Seeds |-> <<>>]
    /\ idx = <<>>
    /\ ratios = <<>>
    /\ sizes = <<>>
    /\ split_groups = <<>>
    /\ triples_groups = <<>>
    /\ reference = <<>>
    /\ rv = <<>>
    /\ testing = <<>>
    /\ move_id_mask = <<>>
    /\ error = "none"
    /\ prev = NoPrev

\* TriplesFactory.from_labeled_triples(labeled_triples, **arguments).
FromLabeledTriples ==
    /\ pc = "unbuilt"
    /\ factories' = <<from_labeled_triples(labeled_triples,
                                           arguments.create_inverse_triples,
                                           arguments.entity_to_id,
                                           arguments.relation_to_id,
                                           arguments.compact_id)>>
    /\ result' = [NoResult EXCEPT !.op = "from_labeled_triples", !.triples = labeled_triples,
                                   !.value = <<1>>]
    /\ pc' = "built"
    /\ UNCHANGED <<mapped_triples, ratios_arg, random_state, randomize_cleanup, tape, idx,
                   ratios, sizes, split_groups, triples_groups, reference, rv, testing,
                   move_id_mask, error, prev, labeled_triples, arguments, self>>

\* from_labeled_triples is called again with the same arguments and the rows of
\* labeled_triples in another order.
FromPermutedTriples ==
    /\ pc = "built"
    /\ Len(factories) = 1
    /\ \E p \in Permutations(1 .. Len(labeled_triples)) :
          LET permuted == [i \in 1 .. Len(labeled_triples) |-> labeled_triples[p[i]]]
          IN  /\ factories' = Append(factories,
                      from_labeled_triples(permuted,
                                           arguments.create_inverse_triples,
                                           arguments.entity_to_id,
                                           arguments.relation_to_id,
                                           arguments.compact_id))
              /\ result' = [NoResult EXCEPT !.op = "from_permuted_triples",
                                            !.triples = permuted,
                                            !.value = <<2>>]
    /\ UNCHANGED <<svars, labeled_triples, arguments, self>>

\* The `triples` property, lines 411-415: a factory renders its own id triples.
LabelOwnTriples ==
    /\ pc = "built"
    /\ \E i \in 1 .. Len(factories) :
          LET labeled == label_triples(factories[i], factories[i].mapped_triples)
          IN  result' = [NoResult EXCEPT !.op = "triples", !.on = i,
                                         !.error = labeled.error,
                                         !.value = labeled.value]
    /\ UNCHANGED <<mapped_triples, ratios_arg, pc, random_state, randomize_cleanup, tape,
                   idx, ratios, sizes, split_groups, triples_groups, reference, rv,
                   testing, move_id_mask, error, prev, labeled_triples, arguments,
                   factories, self>>

\* get_inverse_relation_id(relation) is called on a factory.
GetInverseRelationId ==
    /\ pc = "built"
    /\ \E i \in 1 .. Len(factories), relation \in RelationLabels :
          LET r == get_inverse_relation_id(factories[i], relation)
          IN  result' = [NoResult EXCEPT !.op = "get_inverse_relation_id", !.on = i,
                                         !.relations = Selection({relation}, {}),
                                         !.error = r.error,
                                         !.value = r.value]
    /\ UNCHANGED <<svars, labeled_triples, arguments, factories, self>>

NextFactory ==
    \/ FromLabeledTriples
    \/ FromPermutedTriples
    \/ LabelOwnTriples
    \/ GetInverseRelationId

SpecFactory == InitFactory /\ [][NextFactory]_vars

(***************************************************************************)
(* Calls on a factory that return a factory.                               *)
(***************************************************************************)
\* The entity and relation collections a caller may pass to factory f.
EntitySelections(f) ==
    {NoSelection} \cup {Selection(labels, {}) : labels \in SUBSET DOMAIN f.entity_to_id}

RelationSelections(f) ==
    {Selection(labels, {}) : labels \in SUBSET DOMAIN f.relation_to_id}
    \cup {Selection({}, ids) : ids \in SUBSET Values(f.relation_to_id) \ {{}}}

\* factories[i].<op>(entities, relations) returned or raised r: a new factory is
\* appended to `factories`, and `result` records the call.
Called(op, i, entities, relations, r) ==
    /\ factories' = IF r.error = "none" /\ ~r.value.is_self
                    THEN Append(factories, r.value.factory)
                    ELSE factories
    /\ result' = [op |-> op, on |-> i, triples |-> <<>>, entities |-> entities,
                  relations |-> relations, error |-> r.error,
                  value |-> IF r.error # "none" THEN <<>>
                            ELSE IF r.value.is_self THEN <<i>>
                            ELSE <<Len(factories) + 1>>]

\* No call has been made yet on the factory from_labeled_triples returned: a
\* behaviour makes one call on it, and NewWithRestrictionAgain one more.
FirstCall == result.op = "from_labeled_triples"

NewWithRestriction ==
    /\ pc = "built"
    /\ FirstCall
    /\ \E i \in 1 .. Len(factories) :
       \E entities \in EntitySelections(factories[i]) :
       \E relations \in {NoSelection} \cup RelationSelections(factories[i]) :
          Called("new_with_restriction", i, entities, relations,
                 new_with_restriction(factories[i], entities, relations))
    /\ UNCHANGED <<svars, labeled_triples, arguments, self>>

\* The relation labels that occur in the triples of f.
RelationLabelsIn(f) ==
    {Get(invert_mapping(f.relation_to_id), f.mapped_triples[i][2], UnknownRelationLabel) :
        i \in 1 .. Len(f.mapped_triples)}

\* The factory a restriction returned is restricted to the relations of its own
\* triples.
NewWithRestrictionAgain ==
    /\ pc = "built"
    /\ result.op = "new_with_restriction"
    /\ result.error = "none"
    /\ LET i == result.value[1]
           relations == Selection(RelationLabelsIn(factories[i]), {})
       IN  Called("new_with_restriction_again", i, NoSelection, relations,
                  new_with_restriction(factories[i], NoSelection, relations))
    /\ UNCHANGED <<svars, labeled_triples, arguments, self>>

NewWithRelations ==
    /\ pc = "built"
    /\ FirstCall
    /\ \E i \in 1 .. Len(factories) :
       \E relations \in RelationSelections(factories[i]) :
          Called("new_with_relations", i, NoSelection, relations,
                 new_with_relations(factories[i], relations))
    /\ UNCHANGED <<svars, labeled_triples, arguments, self>>

NewWithoutRelations ==
    /\ pc = "built"
    /\ FirstCall
    /\ \E i \in 1 .. Len(factories) :
       \E relations \in RelationSelections(factories[i]) :
          Called("new_without_relations", i, NoSelection, relations,
                 new_without_relations(factories[i], relations))
    /\ UNCHANGED <<svars, labeled_triples, arguments, self>>

\* The `ratios` a caller of split() on a factory may pass.
FactoryRatioArgs ==
    {[is_float |-> TRUE, vals |-> <<50>>], [is_float |-> FALSE, vals |-> <<34, 33, 33>>]}

\* factories[i].split(ratios, ...) is called: the call runs on the id triples of
\* that factory.
SplitCalled ==
    /\ pc = "built"
    /\ FirstCall
    /\ \E i \in 1 .. Len(factories), r \in FactoryRatioArgs :
          /\ self' = i
          /\ mapped_triples' = factories[i].mapped_triples
          /\ ratios_arg' = r
    /\ pc' = "idle"
    /\ UNCHANGED <<random_state, randomize_cleanup, tape, idx, ratios, sizes, split_groups,
                   triples_groups, reference, rv, testing, move_id_mask, error, prev,
                   labeled_triples, arguments, factories, result>>

\* split(), lines 596-604: one new factory for every group.
SplitReturned ==
    /\ pc = "returned"
    /\ self # 0
    /\ factories' = factories \o [g \in 1 .. Len(triples_groups) |->
                                     WithTriples(factories[self], triples_groups[g])]
    /\ result' = [NoResult EXCEPT !.op = "split", !.on = self,
                                  !.value = [g \in 1 .. Len(triples_groups) |->
                                                Len(factories) + g]]
    /\ pc' = "built"
    /\ UNCHANGED <<mapped_triples, ratios_arg, random_state, randomize_cleanup, tape, idx,
                   ratios, sizes, split_groups, triples_groups, reference, rv, testing,
                   move_id_mask, error, prev, labeled_triples, arguments, self>>

\* The exception leaves split(): no factory is made.
SplitRaised ==
    /\ pc = "raised"
    /\ self # 0
    /\ result' = [NoResult EXCEPT !.op = "split", !.on = self, !.error = error]
    /\ pc' = "built"
    /\ UNCHANGED <<mapped_triples, ratios_arg, random_state, randomize_cleanup, tape, idx,
                   ratios, sizes, split_groups, triples_groups, reference, rv, testing,
                   move_id_mask, error, prev, labeled_triples, arguments, factories, self>>

NextDerived ==
    \/ FromLabeledTriples
    \/ NewWithRestriction
    \/ NewWithRestrictionAgain
    \/ NewWithRelations
    \/ NewWithoutRelations
    \/ SplitCalled
    \/ Call
    \/ Shuffle
    \/ Normalize
    \/ Slice
    \/ CleanupDeterministic
    \/ CleanupRandomizedEnter
    \/ CleanupRandomizedMove
    \/ CleanupRandomizedExit
    \/ CleanupReturn
    \/ LogSizes
    \/ SplitReturned
    \/ SplitRaised

SpecDerived == InitFactory /\ [][NextDerived]_vars

(***************************************************************************)
(* Stages of a call, for the properties below.                             *)
(***************************************************************************)
\* np.vsplit has returned: split_groups holds the groups before repair.
AfterSlice ==
    \/ pc \in {"cleanup", "randomized", "report", "returned"}
    \/ pc = "raised" /\ error = "ZeroDivisionError"

\* _tf_cleanup_all has returned: triples_groups holds the groups after repair.
AfterCleanup ==
    \/ pc \in {"report", "returned"}
    \/ pc = "raised" /\ error = "ZeroDivisionError"

NumTriples == Len(mapped_triples)

\* Every entity and relation id of group g occurs in group `train`.
Covers(train, g) ==
    /\ EntityIds(g) \subseteq EntityIds(train)
    /\ RelationIds(g) \subseteq RelationIds(train)

\* Rows the repair has moved into the first group so far.
MovedRows == Len(reference) - Len(split_groups[1])

IsScenarioA == mapped_triples = ScenarioATriples /\ ratios_arg = ScenarioARatios

(***************************************************************************)
(* C1.  Post-split coverage.                                               *)
(***************************************************************************)
\* C1: in both cleanup modes and for any number of groups, every entity id and
\* relation id of a returned group also occurs in group 0; while the repair runs,
\* every group already repaired stays covered by the growing first group, and the
\* must-move mask computed again for it is empty.
C1_Coverage ==
    /\ pc \in {"cleanup", "randomized"} =>
          \A j \in 1 .. Len(rv) :
             /\ Covers(reference, rv[j])
             /\ ~MaskAny(prepare_cleanup(reference, rv[j]))
    /\ AfterCleanup =>
          \A g \in 1 .. Len(triples_groups) : Covers(triples_groups[1], triples_groups[g])

\* split() has returned three groups in one mode after returning in the other, and
\* the repair moved a row.
C1_Witness ==
    /\ pc = "returned"
    /\ prev.called /\ prev.outcome = "returned" /\ prev.randomize # randomize_cleanup
    /\ Len(triples_groups) >= 3
    /\ MovedRows > 0

(***************************************************************************)
(* C2.  Group sizes.                                                       *)
(***************************************************************************)
\* floor(a / b) = q, stated without division.
IsFloorOf(q, a, b) == q * b <= a /\ a < (q + 1) * b

\* C2: for ratios summing to at most 1.0, group i has floor(ratio_i * total) rows
\* before repair, and the group sizes sum to the store's triple count before the
\* repair, at every step of it, and in the groups returned, in both modes.
C2_SizesSum ==
    /\ AfterSlice =>
          /\ Len(split_groups) = Len(ratios) + 1
          /\ \A i \in 1 .. Len(ratios) :
                IsFloorOf(Len(split_groups[i]), ratios[i] * NumTriples, RatioDen)
          /\ SumSeq(Lens(split_groups)) = NumTriples
    /\ pc = "cleanup" =>
          Len(reference) + SumSeq(Lens(rv))
             + SumSeq(Lens(SubSeq(Others, Len(rv) + 1, Len(Others)))) = NumTriples
    /\ pc = "randomized" =>
          Len(reference) + SumSeq(Lens(rv)) + Len(testing)
             + SumSeq(Lens(SubSeq(Others, Len(rv) + 2, Len(Others)))) = NumTriples
    /\ AfterCleanup => SumSeq(Lens(triples_groups)) = NumTriples

\* split() has returned groups whose sizes the deterministic repair changed.
C2_Witness ==
    /\ pc = "returned"
    /\ ~randomize_cleanup
    /\ NumTriples = MaxTriples
    /\ Lens(triples_groups) # Lens(split_groups)

(***************************************************************************)
(* C3.  Number of groups.                                                  *)
(***************************************************************************)
\* C3: a single float gives 2 groups, a list of k ratios summing to 1.0 gives k
\* groups, a list of k ratios summing to less than 1.0 gives k + 1 groups.
C3_GroupCount ==
    LET k == Len(ratios_arg.vals)
        expected == IF ratios_arg.is_float THEN 2
                    ELSE IF SumSeq(ratios_arg.vals) = RatioDen THEN k
                    ELSE k + 1
    IN  /\ AfterSlice => Len(split_groups) = expected
        /\ AfterCleanup => Len(triples_groups) = expected

\* split() has returned as many groups as a list summing to 1.0 has ratios.
C3_Witness ==
    /\ pc = "returned"
    /\ ~ratios_arg.is_float
    /\ SumSeq(ratios_arg.vals) = RatioDen
    /\ Len(triples_groups) = Len(ratios_arg.vals)

(***************************************************************************)
(* C4.  Validation of the ratios.                                          *)
(***************************************************************************)
\* C4: when split() raises the validation error for ratios summing to more than
\* 1.0, no randomness has been consumed and no permutation computed: the random
\* generator is in the state it had at the call and the index is not shuffled.
C4_RaisesBeforeRandomness ==
    (pc = "raised" /\ error = "ValueError") =>
        /\ random_state = ensure_random_state(random_state.seed)
        /\ idx = <<>>

(***************************************************************************)
(* C5.  The size report.                                                   *)
(***************************************************************************)
\* C5: for every store and every ratio argument summing to at most 1.0, split()
\* never raises: the comparison of requested and actual sizes only logs.
C5_ReportNeverRaises ==
    SumSeq(ratios_arg.vals) <= RatioDen => pc # "raised"

(***************************************************************************)
(* C6.  Determinism.                                                       *)
(***************************************************************************)
\* C6: two calls of split() on the same store with the same ratios, the same seed
\* and the same cleanup mode end the same way with identical groups, row for row,
\* in randomized as in deterministic mode.
C6_Deterministic ==
    (/\ prev.called
     /\ pc \in {"returned", "raised"}
     /\ prev.seed = random_state.seed
     /\ prev.randomize = randomize_cleanup)
        => /\ prev.outcome = pc
           /\ prev.error = error
           /\ prev.groups = triples_groups

\* Two randomized calls with one seed have returned, each after moving a row.
C6_Witness ==
    /\ prev.called /\ prev.outcome = "returned" /\ pc = "returned"
    /\ prev.seed = random_state.seed
    /\ prev.randomize /\ randomize_cleanup
    /\ NumTriples = MaxTriples
    /\ MovedRows > 0

(***************************************************************************)
(* C7.  Deterministic mode and the seed.                                   *)
(***************************************************************************)
BothReturnedDeterministic ==
    /\ prev.called /\ prev.outcome = "returned" /\ pc = "returned"
    /\ ~prev.randomize /\ ~randomize_cleanup

\* C7 as claimed: in deterministic mode the set of triples of the final group 0
\* is the same for every seed.
C7_SameTrainingForEverySeed ==
    BothReturnedDeterministic => RowSet(prev.groups[1]) = RowSet(triples_groups[1])

\* C7 as amended: in deterministic mode the entity ids and the relation ids that
\* occur in the final group 0 are the same for every seed, namely all ids of the
\* store.
C7_SameTrainingIdsForEverySeed ==
    BothReturnedDeterministic =>
        /\ EntityIds(prev.groups[1]) = EntityIds(triples_groups[1])
        /\ RelationIds(prev.groups[1]) = RelationIds(triples_groups[1])
        /\ EntityIds(triples_groups[1]) = EntityIds(mapped_triples)
        /\ RelationIds(triples_groups[1]) = RelationIds(mapped_triples)

\* Two deterministic calls with different seeds have returned first groups with
\* different triples.
C7_Witness ==
    /\ BothReturnedDeterministic
    /\ prev.seed # random_state.seed
    /\ RowSet(prev.groups[1]) # RowSet(triples_groups[1])

(***************************************************************************)
(* C8.  Scenario A.                                                        *)
(***************************************************************************)
\* C8 as claimed: for scenario A the sizes before repair are [1, 1, 1], and after
\* repair every entity of {a, b, c} occurs in group 0.
C8_ScenarioA_Sizes111 ==
    IsScenarioA =>
        /\ AfterSlice => Lens(split_groups) = <<1, 1, 1>>
        /\ AfterCleanup => EntityIds(triples_groups[1]) = {0, 1, 2}

\* C8 as amended: for scenario A the three groups have sizes [1, 0, 2] before
\* repair, and after repair every entity of {a, b, c} occurs in group 0.
C8_ScenarioA_Sizes102 ==
    IsScenarioA =>
        /\ AfterSlice => Lens(split_groups) = <<1, 0, 2>>
        /\ AfterCleanup => EntityIds(triples_groups[1]) = {0, 1, 2}

\* The repair of scenario A has returned its three groups.
C8_Witness ==
    /\ IsScenarioA
    /\ pc = "report"
    /\ Len(triples_groups) = 3
    /\ Len(triples_groups[1]) > 1

(***************************************************************************)
(* C9.  Scenario A in both modes.                                          *)
(***************************************************************************)
\* C9: for scenario A, a deterministic and a randomized call of split() with the
\* same seed both return, and the final group 0 of the deterministic call is
\* strictly larger than that of the randomized call.
C9_ScenarioA_DeterministicLarger ==
    (/\ IsScenarioA
     /\ prev.called
     /\ pc \in {"returned", "raised"}
     /\ prev.seed = random_state.seed
     /\ ~prev.randomize /\ randomize_cleanup)
        => /\ prev.outcome = "returned"
           /\ pc = "returned"
           /\ Len(prev.groups[1]) > Len(triples_groups[1])

(***************************************************************************)
(* C10.  Rows moved by the randomized repair.                              *)
(***************************************************************************)
\* The pair (training, other) the running randomized repair was entered with.
EntryOther == Others[Len(rv) + 1]

PairMoved == Len(EntryOther) - Len(testing)

EntryTraining == SubSeq(reference, 1, Len(reference) - PairMoved)

\* S, a set of row positions of `other`, repairs the pair: every id of the rows
\* left in `other` occurs in `training` or in a row of S.
Repairs(S, training, other) ==
    LET moved == MaskSelect(other, [i \in 1 .. Len(other) |-> i \in S])
        left == MaskSelect(other, [i \in 1 .. Len(other) |-> i \notin S])
    IN  Covers(training \o moved, left)

\* The minimum size of a set of rows of `other` that repairs the pair.
MinRepair(training, other) ==
    LET sizes_ok == {Cardinality(S) :
                        S \in {X \in SUBSET (1 .. Len(other)) : Repairs(X, training, other)}}
    IN  CHOOSE m \in sizes_ok : \A k \in sizes_ok : m <= k

\* The number of rows of `other` that carry an id `training` lacks.
MustMoveCount(training, other) ==
    Cardinality({i \in 1 .. Len(other) :
                    \/ other[i][1] \notin EntityIds(training)
                    \/ other[i][3] \notin EntityIds(training)
                    \/ other[i][2] \notin RelationIds(training)})

RandomizedPairDone == pc = "randomized" /\ ~MaskAny(move_id_mask)

Root == factories[1]

\* Both mappings were built from the input.
MappingsBuilt == ~arguments.entity_to_id.given /\ ~arguments.relation_to_id.given

\* The root factory has rendered its own triples.
RootRendered == result.op = "triples" /\ result.on = 1

\* The inverses from_labeled_triples adds to the input.
InverseRows(triples) ==
    {<<triples[i][3], WithInverseSuffix(triples[i][2]), triples[i][1]>> :
        i \in 1 .. Len(triples)}

InputHasSuffix == check_already_inverted_relations(Column(labeled_triples, 2))

\* C11 as stated: for every input and every setting of create_inverse, with the
\* mappings built from the input, the store's own id triples rendered back to labels
\* are the input triples as a set.
C11_RoundTrip ==
    RootRendered /\ MappingsBuilt =>
        /\ result.error = "none"
        /\ RowSet(result.value) = RowSet(labeled_triples)

\* C11 amended: with the mappings built from the input, the rendered set is the
\* input set when no inverses are requested or some input relation already carries
\* the suffix, and the input set together with the inverse (t, r_inverse, h) of
\* every input triple when inverses are requested and no relation carries the
\* suffix; a store without triples cannot be rendered (ValueError).
C11_RoundTripWithInverses ==
    RootRendered /\ MappingsBuilt =>
        IF labeled_triples = <<>>
        THEN result.error = "ValueError"
        ELSE /\ result.error = "none"
             /\ RowSet(result.value) =
                    RowSet(labeled_triples) \cup
                    (IF arguments.create_inverse_triples /\ ~InputHasSuffix
                     THEN InverseRows(labeled_triples)
                     ELSE {})

\* A store built with inverses from two different triples has rendered itself.
C11_Witness ==
    /\ RootRendered
    /\ MappingsBuilt
    /\ arguments.create_inverse_triples
    /\ ~InputHasSuffix
    /\ Cardinality(RowSet(labeled_triples)) = 2
    /\ Cardinality(RowSet(result.value)) = 4

\* The factory the last call was made on, and the one it returned.
Receiver == factories[result.on]

Returned == factories[result.value[1]]

\* C12: for every store, with or without inverse relations, and every set R of its
\* relation labels, restricting to R succeeds, and restricting the result T to the
\* relation labels that occur in T's triples succeeds and returns the triples of T.
C12_RestrictionIdempotent ==
    /\ ( /\ MappingsBuilt
         /\ result.op = "new_with_restriction"
         /\ ~result.entities.given
         /\ result.relations.given
         /\ result.relations.ids = {} )
       => result.error = "none"
    /\ ( /\ MappingsBuilt
         /\ result.op = "new_with_restriction_again" )
       => /\ result.error = "none"
          /\ RowSet(Returned.mapped_triples) = RowSet(Receiver.mapped_triples)

\* The ids a collection of relations of f stands for.
RequestedIds(f, relations) ==
    {f.relation_to_id[label] : label \in relations.labels \cap DOMAIN f.relation_to_id}
    \cup relations.ids

\* Relation ids x and y of f are a relation and its inverse.
PairedIds(f, x, y) ==
    \E k \in DOMAIN f.relation_to_inverse.mapping :
        /\ k \in DOMAIN f.relation_to_id
        /\ f.relation_to_inverse.mapping[k] \in DOMAIN f.relation_to_id
        /\ {x, y} = {f.relation_to_id[k], f.relation_to_id[f.relation_to_inverse.mapping[k]]}

\* C13: for a store with inverse relations and any set R of its relations, base or
\* inverse, given by label or by id, the restriction to R succeeds and returns
\* exactly the triples whose relation is in R or is the paired inverse of a member
\* of R, whatever their entities.
C13_RestrictionAddsInverses ==
    ( /\ MappingsBuilt
      /\ result.op = "new_with_restriction"
      /\ Receiver.relation_to_inverse.present
      /\ ~result.entities.given
      /\ result.relations.given )
    => /\ result.error = "none"
       /\ RowSet(Returned.mapped_triples) =
             {row \in RowSet(Receiver.mapped_triples) :
                 \E m \in RequestedIds(Receiver, result.relations) :
                     row[2] = m \/ PairedIds(Receiver, m, row[2])}

\* get_inverse_relation_id(relation) was called on the root factory.
AskedInverseOf(relation) ==
    /\ result.op = "get_inverse_relation_id"
    /\ result.on = 1
    /\ result.relations.labels = {relation}

C15_EveryRelationHasInverse ==
    result.op = "get_inverse_relation_id" /\ result.on = 1 =>
        \A r \in result.relations.labels :
            IF Root.relation_to_inverse.present
            THEN r \in DOMAIN Root.relation_to_id /\ ~EndsWithInverseSuffix(r) =>
                    /\ result.error = "none"
                    /\ WithInverseSuffix(r) \in DOMAIN Root.relation_to_id
                    /\ result.value = Root.relation_to_id[WithInverseSuffix(r)]
            ELSE result.error # "none"

\* C16: from_labeled_triples called with the same arguments on the rows in another
\* order returns the same entity mapping, relation mapping and id triples, rows in
\* the same order; a built entity mapping numbers the labels 0, 1, ... in sorted
\* order.
C16_PermutationInvariant ==
    result.op = "from_permuted_triples" =>
        /\ factories[2].entity_to_id = Root.entity_to_id
        /\ factories[2].relation_to_id = Root.relation_to_id
        /\ factories[2].mapped_triples = Root.mapped_triples
        /\ ~arguments.entity_to_id.given =>
              /\ Values(Root.entity_to_id) = 0 .. num_entities(Root) - 1
              /\ \A x, y \in DOMAIN Root.entity_to_id :
                    EntityLabelLess(x, y) <=> Root.entity_to_id[x] < Root.entity_to_id[y]

\* Two rows with different heads were passed in both orders, latest label first in
\* one of them, and mapped to two id rows.
C16_Witness ==
    /\ result.op = "from_permuted_triples"
    /\ MappingsBuilt
    /\ Len(labeled_triples) = 2
    /\ result.triples # labeled_triples
    /\ EntityLabelLess(labeled_triples[2][1], labeled_triples[1][1])
    /\ Len(Root.mapped_triples) = 2

\* The calls that derive factories from a factory.
DerivingOps ==
    {"split", "new_with_relations", "new_without_relations", "new_with_restriction",
     "new_with_restriction_again"}

\* A step leaves every factory that exists as it is, and leaves the id triples a
\* running split() reads as they are.
OriginalsUnchanged ==
    /\ \A i \in 1 .. Len(factories) : factories'[i] = factories[i]
    /\ self # 0 /\ self' = self => mapped_triples' = mapped_triples

\* Factory k after the step has the mappings and the inverse map of the factory
\* the call was made on.
SharesMappings(k) ==
    /\ factories'[k].entity_to_id = factories[result'.on].entity_to_id
    /\ factories'[k].relation_to_id = factories[result'.on].relation_to_id
    /\ factories'[k].relation_to_inverse = factories[result'.on].relation_to_inverse

\* The step is the return of a call that derives factories.
DerivingReturn == result' # result /\ result'.op \in DerivingOps /\ result'.error = "none"

EntityIdsInRange(f) ==
    /\ \A i \in 1 .. Len(f.mapped_triples) :
          /\ f.mapped_triples[i][1] \in 0 .. num_entities(f) - 1
          /\ f.mapped_triples[i][3] \in 0 .. num_entities(f) - 1
    /\ Values(f.entity_to_id) = 0 .. num_entities(f) - 1

\* The same for the relation column and relation_to_id.
RelationIdsInRange(f) ==
    /\ \A i \in 1 .. Len(f.mapped_triples) :
          f.mapped_triples[i][2] \in 0 .. num_relations(f) - 1
    /\ Values(f.relation_to_id) = 0 .. num_relations(f) - 1

\* C18 as stated: for every combination of create_inverse, built or caller-supplied
\* mappings and compact_ids, the store from_labeled_triples returns and every store
\* derived from it by split, filter or restriction has its ids within
\* [0, num_entities) and [0, num_relations) and mappings that are bijections onto
\* those ranges.
C18_IdsInRange ==
    \A k \in 1 .. Len(factories) :
        EntityIdsInRange(factories[k]) /\ RelationIdsInRange(factories[k])

\* C18 amended: the entity side holds when the entity mapping is built by
\* from_labeled_triples or compact_ids is true, and the relation side when the
\* relation mapping is built or compact_ids is true; caller-supplied ids that are not
\* compacted are kept as they are.
C18_IdsInRangeWhenBuiltOrCompacted ==
    \A k \in 1 .. Len(factories) :
        /\ ~arguments.entity_to_id.given \/ arguments.compact_id
              => EntityIdsInRange(factories[k])
        /\ ~arguments.relation_to_id.given \/ arguments.compact_id
              => RelationIdsInRange(factories[k])

\* A store with triples has been derived from a store built with inverses from
\* caller-supplied sparse mappings that were compacted.
C18_Witness ==
    /\ result.op \in DerivingOps
    /\ result.error = "none"
    /\ arguments.entity_to_id = Given(SparseEntityMapping)
    /\ arguments.relation_to_id = Given(SparseRelationMapping)
    /\ arguments.compact_id
    /\ arguments.create_inverse_triples
    /\ Len(factories) >= 2
    /\ Len(Root.mapped_triples) >= 2
    /\ factories[Len(factories)].mapped_triples # <<>>

\* The label rows from_labeled_triples passed to _map_triples_elements_to_ids.
RowsToMap == ExtendedTriples(labeled_triples, arguments.create_inverse_triples)

\* The positions of the rows whose three labels are all mapped by the factory.
Mappable(f, rows) ==
    {i \in 1 .. Len(rows) :
        /\ rows[i][1] \in DOMAIN f.entity_to_id
        /\ rows[i][2] \in DOMAIN f.relation_to_id
        /\ rows[i][3] \in DOMAIN f.entity_to_id}

\* C19: _map_triples_elements_to_ids returns exactly the id triples of the rows whose
\* three labels are all mapped, each of them once; rows with an unmapped label are
\* dropped, and an empty input or an input without mappable rows gives the empty
\* array.
C19_MapsExactlyMappableRows ==
    pc = "built" =>
        /\ RowSet(Root.mapped_triples) =
              {<<Root.entity_to_id[RowsToMap[i][1]],
                 Root.relation_to_id[RowsToMap[i][2]],
                 Root.entity_to_id[RowsToMap[i][3]]>> : i \in Mappable(Root, RowsToMap)}
        /\ \A i, j \in 1 .. Len(Root.mapped_triples) :
              Root.mapped_triples[i] = Root.mapped_triples[j] => i = j
        /\ Mappable(Root, RowsToMap) = {} => Root.mapped_triples = <<>>

\* Of four rows passed to the mapping, some were dropped for an unmapped label and
\* some were mapped.
C19_Witness ==
    /\ pc = "built"
    /\ Len(RowsToMap) = 4
    /\ Mappable(Root, RowsToMap) # {}
    /\ Mappable(Root, RowsToMap) # 1 .. 4
    /\ Len(Root.mapped_triples) >= 1
    /\ \E i \in 1 .. 4 : RowsToMap[i][3] \notin DOMAIN Root.entity_to_id

(***************************************************************************)
(* C20.  The loop of the randomized repair.                                *)
(***************************************************************************)
\* The number of distinct entity ids and relation ids that occur in `other` and
\* not in `training`.
MissingIds(training, other) ==
    Cardinality(EntityIds(other) \ EntityIds(training))
    + Cardinality(RelationIds(other) \ RelationIds(training))

\* A step is an iteration of the loop of _tf_cleanup_randomized.
Iteration == pc = "randomized" /\ pc' = "randomized" /\ reference' # reference

\* A step leaves the loop.
LoopExit == pc = "randomized" /\ pc' # "randomized"

\* C20: every iteration of the randomized repair moves exactly one must-move row
\* from `other` to the end of training and strictly decreases the number of distinct
\* ids that occur in `other` and not in training; the iterations done are at most
\* the number of ids missing at entry, and at most the rows of `other` at entry;
\* the mask is the recomputed must-move mask, the loop goes on while it has a set
\* bit and is left only when it is empty.
C20_RandomizedRepairTerminates ==
    /\ [](pc = "randomized" =>
            /\ move_id_mask = prepare_cleanup(reference, testing)
            /\ PairMoved + MissingIds(reference, testing)
                  <= MissingIds(EntryTraining, EntryOther)
            /\ PairMoved <= Len(EntryOther)
            /\ MaskAny(move_id_mask) <=> MissingIds(reference, testing) > 0)
    /\ [][ /\ Iteration =>
                /\ \E i \in 1 .. Len(testing) :
                      /\ prepare_cleanup(reference, testing)[i]
                      /\ reference' = Append(reference, testing[i])
                      /\ Len(testing') = Len(testing) - 1
                      /\ \A j \in 1 .. Len(testing') :
                            testing'[j] = IF j < i THEN testing[j] ELSE testing[j + 1]
                /\ MissingIds(reference', testing') < MissingIds(reference, testing)
           /\ LoopExit => ~MaskAny(prepare_cleanup(reference, testing))
           /\ pc = "randomized" /\ MaskAny(move_id_mask) => Iteration ]_vars

\* A randomized repair has finished after two iterations.
C20_Witness == RandomizedPairDone /\ PairMoved = 2

(***************************************************************************)
(* C21.  What the repair may move.                                         *)
(***************************************************************************)
\* a is b with some rows left out, the others in their order.
RECURSIVE IsSubsequence(_, _)
IsSubsequence(a, b) ==
    IF a = <<>> THEN TRUE
    ELSE IF b = <<>> THEN FALSE
    ELSE IF a[1] = b[1] THEN IsSubsequence(Tail(a), Tail(b))
    ELSE IsSubsequence(a, Tail(b))

\* The rows the repair has appended to the first group so far.
MovedSuffix == SubSeq(reference, Len(split_groups[1]) + 1, Len(reference))

\* The rows that have left the groups after the first so far.
RowsTaken ==
    UNION {RowSet(Others[g]) \ RowSet(rv[g]) : g \in 1 .. Len(rv)}
    \cup (IF pc = "randomized" THEN RowSet(EntryOther) \ RowSet(testing) ELSE {})

\* The row carries an entity or relation id that `training` lacks.
CarriesMissingId(row, training) ==
    \/ row[1] \notin EntityIds(training)
    \/ row[3] \notin EntityIds(training)
    \/ row[2] \notin RelationIds(training)

\* C21: in both modes and after every repair step the first group is the
\* pre-repair first group, rows in their order, followed by the moved rows; every
\* other group is a subsequence of its pre-repair group; the moved rows are exactly
\* the rows that left the other groups, so no row goes from one other group to
\* another or leaves the first group; and a step moves a row only if the row carries
\* an entity or relation id the first group lacks at that moment.
C21_RepairOnlyMovesIntoGroup0 ==
    /\ [](AfterSlice =>
            /\ SubSeq(reference, 1, Len(split_groups[1])) = split_groups[1]
            /\ \A g \in 1 .. Len(rv) : IsSubsequence(rv[g], Others[g])
            /\ pc = "randomized" => IsSubsequence(testing, EntryOther)
            /\ RowSet(MovedSuffix) = RowsTaken
            /\ Len(MovedSuffix) = Cardinality(RowsTaken)
            /\ AfterCleanup => triples_groups = <<reference>> \o rv)
    /\ [][ (pc \in {"cleanup", "randomized"} /\ reference' # reference) =>
              ( /\ Len(reference') > Len(reference)
                /\ SubSeq(reference', 1, Len(reference)) = reference
                /\ \A j \in (Len(reference) + 1) .. Len(reference') :
                      CarriesMissingId(reference'[j], reference) ) ]_vars

\* A call with three groups has finished its repair: rows were moved into the
\* first group and a later group still has rows.
C21_Witness ==
    /\ pc = "report"
    /\ Len(split_groups) = 3
    /\ Len(MovedSuffix) >= 1
    /\ \E g \in 1 .. Len(rv) : rv[g] # <<>>

(***************************************************************************)
(* C22: split() partitions the store.                                      *)
(***************************************************************************)
\* The number of times `row` occurs in group g.
OccurrencesIn(row, g) == Cardinality({i \in 1 .. Len(g) : g[i] = row})

\* The groups that hold `row`.
GroupsHolding(row, groups) == {g \in 1 .. Len(groups) : OccurrencesIn(row, groups[g]) > 0}

\* Every row of `store` is in exactly one group, once; no group has another row.
IsPartitionOf(groups, store) ==
    /\ \A row \in RowSet(store) :
          /\ Cardinality(GroupsHolding(row, groups)) = 1
          /\ \A g \in GroupsHolding(row, groups) : OccurrencesIn(row, groups[g]) = 1
    /\ \A g \in 1 .. Len(groups) : RowSet(groups[g]) \subseteq RowSet(store)
    /\ SumSeq([g \in 1 .. Len(groups) |-> Len(groups[g])]) = Len(store)

\* The groups as they stand while _tf_cleanup_all runs: the reference, the groups
\* already repaired, the group under repair, and the groups still to come.
GroupsInRepair ==
    LET done == Len(rv)
        current == IF pc = "randomized" THEN <<testing>> ELSE <<>>
        next == done + Len(current) + 1
    IN  <<reference>> \o rv \o current \o SubSeq(Others, next, Len(Others))

\* C22: for every store, every ratio argument that sums to at most 1, every seed
\* and both repair modes, the groups split() computes partition the store: after
\* the permutation and the slicing, at every point of the repair, and in the list
\* that is returned, every triple of the store is in exactly one group exactly
\* once and no group holds a triple that is not in the store.
C22_SplitPartitionsStore ==
    /\ AfterSlice => IsPartitionOf(split_groups, mapped_triples)
    /\ pc \in {"cleanup", "randomized"} => IsPartitionOf(GroupsInRepair, mapped_triples)
    /\ AfterCleanup => IsPartitionOf(triples_groups, mapped_triples)

\* A three-row store is returned in three groups after the repair has moved a row.
C22_Witness ==
    /\ pc = "returned"
    /\ NumTriples = 3
    /\ Len(triples_groups) = 3
    /\ Len(triples_groups[1]) > Len(split_groups[1])
    /\ SumSeq(ratios_arg.vals) <= RatioDen

\* The same in randomized mode.
C22_WitnessRandomized == C22_Witness /\ randomize_cleanup

(***************************************************************************)
(* C23: the randomized repair against the deterministic repair.            *)
(***************************************************************************)
\* The rows _tf_cleanup_deterministic(training, other) moves into training.
DeterministicMoved(training, other) ==
    LET r == tf_cleanup_deterministic(training, other)
    IN  RowSet(SubSeq(r.training, Len(training) + 1, Len(r.training)))

\* The rows the running _tf_cleanup_randomized has moved out of its pair so far.
RandomizedMoved == RowSet(SubSeq(reference, Len(EntryTraining) + 1, Len(reference)))

\* The reference group _tf_cleanup_all returns in deterministic mode.
RECURSIVE DeterministicReference(_, _)
DeterministicReference(training, others) ==
    IF others = <<>> THEN training
    ELSE DeterministicReference(tf_cleanup_deterministic(training, others[1]).training,
                                Tail(others))

\* C23: for every pair (training, other) the randomized repair is entered with
\* and every sequence of random choices, the rows it has moved are, at every point
\* of the loop, among the rows the deterministic repair of the same pair moves, so
\* the pair's training group ends no larger than in deterministic mode; and for the
\* same sliced groups the group 0 a randomized call ends with holds only rows of,
\* and is no larger than, the group 0 a deterministic call ends with.
C23_RandomizedMovesSubset ==
    /\ pc = "randomized" =>
          /\ RandomizedMoved \subseteq DeterministicMoved(EntryTraining, EntryOther)
          /\ Cardinality(RandomizedMoved) = PairMoved
          /\ Len(reference) <= Len(tf_cleanup_deterministic(EntryTraining, EntryOther).training)
    /\ (AfterCleanup /\ randomize_cleanup) =>
          /\ RowSet(triples_groups[1])
                \subseteq RowSet(DeterministicReference(split_groups[1], Others))
          /\ Len(triples_groups[1]) <= Len(DeterministicReference(split_groups[1], Others))

\* A randomized repair has ended after moving a row, and fewer rows than the
\* deterministic repair of the same pair moves.
C23_Witness ==
    /\ RandomizedPairDone
    /\ PairMoved >= 1
    /\ PairMoved < Cardinality(DeterministicMoved(EntryTraining, EntryOther))

\* A randomized call over three groups has ended with a smaller group 0 than the
\* deterministic repair of the same groups gives.
C23_WitnessCall ==
    /\ pc = "report"
    /\ randomize_cleanup
    /\ Len(split_groups) = 3
    /\ Len(triples_groups[1]) > Len(split_groups[1])
    /\ Len(triples_groups[1]) < Len(DeterministicReference(split_groups[1], Others))

=============================================================================
